---- MODULE Spec2Model ----
(***************************************************************************)
(* Ordered asynchronous speech-synthesis delivery of Open-LLM-VTuber:      *)
(* TTSTaskManager (conversations/tts_manager.py) with the payload builder  *)
(* (utils/stream_audio.py).  The asyncio event loop is modelled as an      *)
(* interleaving of the pieces of code that run between two suspension      *)
(* points of a task: speak() and clear() never suspend (the queue is       *)
(* unbounded, _ensure_sender_task awaits nothing), a worker suspends in    *)
(* the synthesis call, the sender suspends in queue.get(), in              *)
(* websocket_send and in its error back-off sleep.                         *)
(***************************************************************************)
EXTENDS Integers, Sequences, FiniteSets, TLC

\* ------------------------------------------------------------------ bounds
MaxSpeak == 2       \* speak() calls in Spec
MaxClear == 2       \* clear() calls in Spec
MaxSendFail == 1    \* websocket_send calls that raise in Spec
MaxSegments == 3    \* speak() calls in the single lifecycle of SpecTurn
MaxAnalysed == 2    \* speak() calls in SpecAnalysis
MaxCallers == 3     \* speak() calls in SpecCallers

\* ------------------------------------------------------------- text model
\* A text is the sequence of its Unicode code points.
\* The character class of the regular expression of speak():
\* \s (9..13, 32, 160, 12288) . , ! ? and their full-width forms, ' " and
\* the closing brackets.
StripSet ==
    {9, 10, 11, 12, 13, 32, 160, 12288,
     46, 44, 33, 63, 65292, 12290, 65281, 65311,
     39, 34, 12303, 12301, 65289, 12305}

\* re.sub(class+, "", tts_text): what is left of the text.
Stripped(text) == SelectSeq(text, LAMBDA ch : ch \notin StripSet)

IsEmptyText_WhitespaceOnly(text) ==
    Len(SelectSeq(text, LAMBDA ch : ch \notin {9, 10, 11, 12, 13, 32})) = 0

\* the condition of the short-circuit of speak()
IsEmptyText(text) == Len(Stripped(text)) = 0

TextHello == <<72, 101, 108, 108, 111, 46>>
TextHowAreYou == <<72, 111, 119, 32, 97, 114, 101, 32, 121, 111, 117, 63>>
TextDots == <<46, 46>>
TextPunct == <<46, 46, 46, 33, 63>>
TextCjkStop == <<12290, 32>>
Texts == {TextHello, TextHowAreYou, TextDots, TextPunct, TextCjkStop}

\* ------------------------------------------------------------ audio model
\* What the synthesis capability hands back: a file that decodes or not,
\* and the RMS of each of its windows.
GoodFile == [decodable |-> TRUE, rms |-> <<10, 40>>]
SilenceFile == [decodable |-> TRUE, rms |-> <<0, 0>>]
CorruptFile == [decodable |-> FALSE, rms |-> <<>>]
AudioFiles == {GoodFile, SilenceFile, CorruptFile}
NoFile == [decodable |-> FALSE, rms |-> <<-1>>]

RECURSIVE SeqMax(_)
SeqMax(s) ==
    IF Len(s) = 1 THEN s[1]
    ELSE LET m == SeqMax(Tail(s)) IN IF s[1] > m THEN s[1] ELSE m

RECURSIVE Gcd(_, _)
Gcd(a, b) == IF b = 0 THEN a ELSE Gcd(b, a % b)

\* volume / max_volume as a fraction in lowest terms <<num, den>>
Ratio(v, m) == LET g == Gcd(v, m) IN <<v \div g, m \div g>>

\* _get_volume_by_chunks raises (max of an empty list, or ValueError for an
\* all-zero list) exactly when this is FALSE.
VolumesDefined(rms) == Len(rms) > 0 /\ SeqMax(rms) /= 0

_get_volume_by_chunks_Unscaled(rms) == [i \in 1..Len(rms) |-> <<rms[i], 1>>]

\* the list _get_volume_by_chunks returns when it does not raise
_get_volume_by_chunks(rms) ==
    LET max_volume == SeqMax(rms)
    IN [i \in 1..Len(rms) |-> Ratio(rms[i], max_volume)]

VolumeResult_Zeros(rms) ==
    [raised |-> FALSE,
     volumes |-> IF VolumesDefined(rms) THEN _get_volume_by_chunks(rms)
                 ELSE [i \in 1..Len(rms) |-> <<0, 1>>]]

\* the outcome of a call of _get_volume_by_chunks: it raised, or the list
VolumeResult(rms) ==
    IF VolumesDefined(rms)
    THEN [raised |-> FALSE, volumes |-> _get_volume_by_chunks(rms)]
    ELSE [raised |-> TRUE, volumes |-> <<>>]

ChunkLengthMs == 20

SilentPayload(display_text, actions) ==
    [type |-> "audio", audio |-> "null", volumes |-> <<>>,
     slice_length |-> ChunkLengthMs, display_text |-> display_text,
     actions |-> actions, forwarded |-> FALSE]

AudioPayload_NoEnvelope(file, display_text, actions) ==
    [type |-> "audio", audio |-> "base64", volumes |-> <<>>,
     slice_length |-> ChunkLengthMs, display_text |-> display_text,
     actions |-> actions, forwarded |-> FALSE]

\* the payload prepare_audio_payload builds from a file
AudioPayload(file, display_text, actions) ==
    [type |-> "audio", audio |-> "base64",
     volumes |-> VolumeResult(file.rms).volumes,
     slice_length |-> ChunkLengthMs, display_text |-> display_text,
     actions |-> actions, forwarded |-> FALSE]

\* prepare_audio_payload raises for this file
PrepareRaises(file) == ~file.decodable \/ VolumeResult(file.rms).raised

\* prepare_audio_payload(audio_path, display_text=..., actions=...)
prepare_audio_payload(file, display_text, actions) ==
    IF file = NoFile THEN SilentPayload(display_text, actions)
    ELSE AudioPayload(file, display_text, actions)

NoPayload == SilentPayload(0, 0)

\* ------------------------------------------------------------------ state
VARIABLES
    task_list,               \* self.task_list: the worker tasks, as worker ids
    _payload_queue,          \* contents of the queue object self._payload_queue
    queueId,                 \* identity of that queue object
    _sender_task,            \* self._sender_task: a sender id, 0 for None
    _sequence_counter,
    _next_sequence_to_send,
    senders,                 \* every _process_payload_queue task ever created
    workers,                 \* per submission, its _process_tts task
    submitted,               \* history: the speak() calls, in call order
    sent,                    \* history: what websocket_send accepted, in order
    puts,                    \* history: per submission, the items it put
    outOfOrder,              \* history: a sender has held back an early arrival
    synthCalls,              \* history: submissions whose synthesis was invoked
    synthFailed,             \* history: submissions whose synthesis raised
    removed,                 \* history: submissions whose file was removed
    sendFails,               \* history: websocket_send calls that raised
    _lock,                   \* self._lock
    conv,                    \* where process_single_conversation stands
    signals,                 \* history: backend-synth-complete messages sent
    rmsIn,                   \* the window RMS values given to the analyzer
    envelope,                \* what _get_volume_by_chunks made of rmsIn
    llm_configs,             \* the caller's llm_configs object
    agents,                  \* history: the create_agent calls, in call order
    chat                     \* one chat_completion generator and its consumer

vars ==
    <<task_list, _payload_queue, queueId, _sender_task, _sequence_counter,
      _next_sequence_to_send, senders, workers, submitted, sent, puts,
      outOfOrder, synthCalls, synthFailed, removed, sendFails,
      _lock, conv, signals, rmsIn, envelope, llm_configs, agents, chat>>

\* the turn of process_single_conversation
convVars == <<conv, signals>>
\* the loudness analyzer on its own
volVars == <<rmsIn, envelope>>
\* the agent factory and the Ollama client on their own
agentVars == <<llm_configs, agents, chat>>

NoActions == 0

\* the text has nothing but whitespace and sentence punctuation
OnlyPunctuation(text) == \A i \in 1..Len(text) : text[i] \in StripSet
EmptyBuffer == [k \in {} |-> NoPayload]
BufPut_Drop(buf, k, p) == buf

\* buffered_payloads[k] = p
BufPut(buf, k, p) ==
    [x \in (DOMAIN buf) \cup {k} |-> IF x = k THEN p ELSE buf[x]]
BufPop(buf, k) == [x \in (DOMAIN buf) \ {k} |-> buf[x]]

\* remove_file has not been called
NoCleanup == [called |-> FALSE, failed |-> FALSE, enqueued |-> 0]

NotComputed == [raised |-> FALSE, volumes |-> <<>>, computed |-> FALSE]

\* the RMS lists given to _get_volume_by_chunks: the example of the
\* documentation and every list of at most MaxWindows windows
MaxWindows == 3     \* windows of an audio in SpecVolume and SpecAnalysis
RmsValues == {0, 10, 20, 40}
ExampleRms == <<10, 20, 0, 40, 20>>
RmsInputs ==
    {ExampleRms} \cup UNION {[1..n -> RmsValues] : n \in 0..MaxWindows}

\* __init__
InitManager ==
    /\ _lock = "unlocked"
    /\ task_list = <<>>
    /\ _payload_queue = <<>>
    /\ queueId = 0
    /\ _sender_task = 0
    /\ _sequence_counter = 0
    /\ _next_sequence_to_send = 0
    /\ senders = <<>>
    /\ workers = <<>>
    /\ submitted = <<>>
    /\ sent = <<>>
    /\ puts = <<>>
    /\ outOfOrder = FALSE
    /\ synthCalls = {}
    /\ synthFailed = {}
    /\ removed = {}
    /\ sendFails = 0

\* no llm_configs passed yet
NoConfigs == [model_dump |-> FALSE, configs |-> <<>>]

\* chat_completion not called
NoResponse == [kind |-> "none"]
NotCalled ==
    [pc |-> "idle", response |-> NoResponse, yielded |-> <<>>, calls |-> 0]

\* neither create_agent nor chat_completion takes part
AgentIdle ==
    /\ llm_configs = NoConfigs
    /\ agents = <<>>
    /\ chat = NotCalled

\* a new TTSTaskManager at the start of a turn (single_conversation.py, 49)
Init ==
    /\ InitManager
    /\ conv = "stream"
    /\ signals = 0
    /\ rmsIn = <<>>
    /\ envelope = NotComputed
    /\ AgentIdle

\* ------------------------------------------------------------ Task Manager
NextSequence_Stuck(c) == c

\* self._sequence_counter += 1, in the statement that follows the read
NextSequence(c) == c + 1

NeedsSender_IgnoreRunning(task, snd) == TRUE

\* the condition of _ensure_sender_task:
\* not self._sender_task or self._sender_task.done()
NeedsSender(task, snd) == task = 0 \/ snd[task].pc = "done"

NewSender ==
    [pc |-> "new", cancel |-> FALSE, buffered_payloads |-> EmptyBuffer,
     next_payload |-> NoPayload, waitQ |-> queueId]

\* _ensure_sender_task: the senders and the sender task it leaves
EnsuredSenders ==
    IF NeedsSender(_sender_task, senders) THEN Append(senders, NewSender)
    ELSE senders
\* an ensure that creates the task and does not keep it
EnsuredSenderTask_Unset == _sender_task

\* the value _ensure_sender_task leaves in self._sender_task
EnsuredSenderTask ==
    IF NeedsSender(_sender_task, senders) THEN Len(senders) + 1
    ELSE _sender_task

\* _send_silent_payload: what it puts on the queue
SilentItems(display_text, actions, sequence_number) ==
    << [payload |-> prepare_audio_payload(NoFile, display_text, actions),
        sequence_number |-> sequence_number] >>

SpawnedWorker_Awaited(sequence_number, actions) ==
    [pc |-> "synth", sequence_number |-> sequence_number,
     actions |-> actions, exc |-> "none", cleanup |-> NoCleanup]

\* asyncio.create_task(self._process_tts(...)): a task that has not run yet
SpawnedWorker(sequence_number, actions) ==
    [pc |-> "new", sequence_number |-> sequence_number, actions |-> actions,
     exc |-> "none", cleanup |-> NoCleanup]

\* speak(tts_text, display_text, actions, ...).  The display metadata of a
\* call is the number of the call, so that a payload names its submission.
speak(tts_text, actions, limit) ==
    LET sub == Len(submitted) + 1
        current_sequence == _sequence_counter
        silent == IsEmptyText(tts_text)
    IN /\ Len(submitted) < limit
       /\ _sequence_counter' = NextSequence(_sequence_counter)
       /\ senders' = EnsuredSenders
       /\ _sender_task' = EnsuredSenderTask
       /\ submitted' = Append(submitted,
              [punctuationOnly |-> OnlyPunctuation(tts_text),
               queue |-> queueId, sequence_number |-> current_sequence])
       /\ IF silent
          THEN \* _send_silent_payload
               /\ _payload_queue' = _payload_queue \o
                      SilentItems(sub, actions, current_sequence)
               /\ puts' = Append(puts,
                      SilentItems(sub, actions, current_sequence))
               /\ workers' = Append(workers,
                      [pc |-> "none", sequence_number |-> current_sequence,
                       actions |-> actions, exc |-> "none",
                       cleanup |-> NoCleanup])
               /\ UNCHANGED task_list
          ELSE \* asyncio.create_task(self._process_tts(...))
               /\ workers' = Append(workers,
                      SpawnedWorker(current_sequence, actions))
               /\ task_list' = Append(task_list, sub)
               /\ puts' = Append(puts, <<>>)
               /\ UNCHANGED _payload_queue
       /\ UNCHANGED <<queueId, _next_sequence_to_send, sent, synthCalls,
                      removed, sendFails, outOfOrder,
                   synthFailed,
                   _lock, convVars, volVars, agentVars>>

\* The caller's metadata: the display text of the n-th call is n; the
\* actions are an Actions object (n) in odd calls and None in even ones.
ActionsOf(n) == IF n % 2 = 1 THEN n ELSE NoActions

Speak == \E tts_text \in Texts :
            speak(tts_text, ActionsOf(Len(submitted) + 1), MaxSpeak)

SpeakTurn == \E tts_text \in Texts :
                speak(tts_text, ActionsOf(Len(submitted) + 1), MaxSegments)

ResetCounter_Keep(c) == c

\* the value clear() assigns to both counters
ResetCounter(c) == 0

\* Task.cancel(): a request; the task ends when it next runs
CancelSender(snd, task) ==
    IF task /= 0 /\ snd[task].pc /= "done"
    THEN [snd EXCEPT ![task].cancel = TRUE]
    ELSE snd

clear ==
    /\ queueId < MaxClear
    /\ task_list' = <<>>
    /\ senders' = CancelSender(senders, _sender_task)
    /\ _sequence_counter' = ResetCounter(_sequence_counter)
    /\ _next_sequence_to_send' = ResetCounter(_next_sequence_to_send)
    /\ _payload_queue' = <<>>
    /\ queueId' = queueId + 1
    /\ UNCHANGED <<_sender_task, workers, submitted, sent, puts,
                   synthCalls, removed, sendFails, outOfOrder,
                   synthFailed,
                   _lock, convVars, volVars, agentVars>>

\* ------------------------------------------------------------------ worker
\* _process_tts up to its first suspension: it calls the synthesis capability
WorkerStart(w) ==
    /\ workers[w].pc = "new"
    /\ workers' = [workers EXCEPT ![w].pc = "synth"]
    /\ synthCalls' = synthCalls \cup {w}
    /\ UNCHANGED <<task_list, _payload_queue, queueId, _sender_task,
                   _sequence_counter, _next_sequence_to_send, senders,
                   submitted, sent, puts, removed, sendFails, outOfOrder,
                   synthFailed,
                   _lock, convVars, volVars, agentVars>>

FallbackItems_Swallow(display_text, actions, sequence_number) == <<>>

FallbackItems_CounterNow(display_text, actions, sequence_number) ==
    << [payload |-> prepare_audio_payload(NoFile, display_text, actions),
        sequence_number |-> _sequence_counter] >>

\* the except branch of _process_tts: what it puts on the queue
FallbackItems(display_text, actions, sequence_number) ==
    << [payload |-> prepare_audio_payload(NoFile, display_text, actions),
        sequence_number |-> sequence_number] >>

AudioItems_Twice(file, display_text, actions, sequence_number) ==
    << [payload |-> prepare_audio_payload(file, display_text, actions),
        sequence_number |-> sequence_number],
       [payload |-> prepare_audio_payload(file, display_text, actions),
        sequence_number |-> sequence_number] >>

\* the try branch of _process_tts after synthesis returned file
AudioItems(file, display_text, actions, sequence_number) ==
    << [payload |-> prepare_audio_payload(file, display_text, actions),
        sequence_number |-> sequence_number] >>

\* the exception that ends the try block of _process_tts, "none" if it ran
\* to its end: the synthesis capability raised (file = NoFile), or
\* prepare_audio_payload raised ValueError
TryRaises(file) ==
    IF file = NoFile THEN "Exception"
    ELSE IF PrepareRaises(file) THEN "ValueError"
    ELSE "none"

Caught_SynthesisOnly(e) == e = "Exception"

\* except Exception: the class and its subclasses
Caught(e) == e \in {"Exception", "ValueError", "OSError"}

RemoveFileCalled_OnSuccess(file) == file /= NoFile /\ ~PrepareRaises(file)

\* the finally block: if audio_file_path
RemoveFileCalled(file) == file /= NoFile

\* The finally block, run when the worker has put enqueued payloads:
\* whether tts_engine.remove_file was called, whether it raised, and how
\* many payloads the worker had put by then.
Cleanup(file, removeRaises, enqueued) ==
    IF RemoveFileCalled(file)
    THEN [called |-> TRUE, failed |-> removeRaises, enqueued |-> enqueued]
    ELSE NoCleanup

\* the exception the worker task ends with, "none" if it returns: one the
\* except clause of the try block did not catch, or one of remove_file that
\* the except clause in the finally block did not catch
WorkerException(file, removeRaises) ==
    IF TryRaises(file) /= "none" /\ ~Caught(TryRaises(file))
    THEN TryRaises(file)
    ELSE IF RemoveFileCalled(file) /\ removeRaises /\ ~Caught("OSError")
    THEN "OSError"
    ELSE "none"

\* what a worker puts on the queue when synthesis raised (file = NoFile) or
\* returned file
WorkerItems(w, file) ==
    IF TryRaises(file) = "none"
    THEN AudioItems(file, w, workers[w].actions, workers[w].sequence_number)
    ELSE IF Caught(TryRaises(file))
    THEN FallbackItems(w, workers[w].actions, workers[w].sequence_number)
    ELSE <<>>

\* asyncio.Queue() is built without maxsize: 0, which means no limit
QueueMaxSize == 0

Full_Bounded(q) == Len(q) >= 1

\* whether a put on the queue has to wait
Full(q) == QueueMaxSize > 0 /\ Len(q) >= QueueMaxSize

\* _process_tts from the return (or exception) of the synthesis call to its
\* end: build the payload, put it on the queue that self._payload_queue names
\* now, remove the file; removeRaises tells whether remove_file raises.
WorkerEnds(w, file, removeRaises) ==
    /\ workers[w].pc = "synth"
    /\ ~Full(_payload_queue)
    /\ workers' = [workers EXCEPT
           ![w].pc = "done",
           ![w].exc = WorkerException(file, removeRaises),
           ![w].cleanup =
               Cleanup(file, removeRaises, Len(WorkerItems(w, file)))]
    /\ _payload_queue' = _payload_queue \o WorkerItems(w, file)
    /\ puts' = [puts EXCEPT ![w] = @ \o WorkerItems(w, file)]
    /\ removed' = IF RemoveFileCalled(file) THEN removed \cup {w}
                   ELSE removed
    /\ synthFailed' = IF file = NoFile THEN synthFailed \cup {w}
                       ELSE synthFailed
    /\ UNCHANGED <<task_list, queueId, _sender_task, _sequence_counter,
                   _next_sequence_to_send, senders, submitted, sent,
                   synthCalls, sendFails, outOfOrder,
                   _lock, convVars, volVars, agentVars>>

\* the same where remove_file does not raise
WorkerFinish(w, file) == WorkerEnds(w, file, FALSE)

SynthesisRaises(w) == WorkerFinish(w, NoFile)
SynthesisReturns(w) == \E file \in AudioFiles : WorkerFinish(w, file)

\* ------------------------------------------------------------------ sender
FlushKeys_OnArrival(buf, next) == DOMAIN buf

FlushKeys_Smallest(buf, next) ==
    IF DOMAIN buf = {} THEN {}
    ELSE {CHOOSE k \in DOMAIN buf : \A x \in DOMAIN buf : k <= x}

\* the condition of the inner while loop and the key it pops
FlushKeys(buf, next) == IF next \in DOMAIN buf THEN {next} ELSE {}

\* The inner while loop from its test to the next suspension point: either
\* it pops the entry and suspends in websocket_send, or it leaves the loop,
\* calls task_done and suspends in queue.get().
Flush(snd, buf, next) ==
    IF FlushKeys(buf, next) /= {}
    THEN LET k == CHOOSE x \in FlushKeys(buf, next) : TRUE
         IN [snd EXCEPT !.pc = "send", !.buffered_payloads = BufPop(buf, k),
                        !.next_payload = buf[k]]
    ELSE [snd EXCEPT !.pc = "get", !.buffered_payloads = buf,
                     !.next_payload = NoPayload, !.waitQ = queueId]

Runnable_IgnoreCancel(s) == senders[s].pc /= "done"

\* the task can take a step of its own code: it has not ended and no
\* CancelledError is waiting for it
Runnable(s) == senders[s].pc /= "done" /\ ~senders[s].cancel

\* the task starts: it enters the loop and calls self._payload_queue.get()
SenderStart(s) ==
    /\ Runnable(s)
    /\ senders[s].pc = "new"
    /\ senders' = [senders EXCEPT ![s].pc = "get", ![s].waitQ = queueId]
    /\ UNCHANGED <<task_list, _payload_queue, queueId, _sender_task,
                   _sequence_counter, _next_sequence_to_send, workers,
                   submitted, sent, puts, synthCalls, removed, sendFails,
                   outOfOrder,
                   synthFailed,
                   _lock, convVars, volVars, agentVars>>

\* queue.get() returns an item: buffer it and run the inner loop
SenderGet(s) ==
    /\ Runnable(s)
    /\ senders[s].pc = "get"
    /\ senders[s].waitQ = queueId
    /\ _payload_queue /= <<>>
    /\ LET item == Head(_payload_queue)
           buf == BufPut(senders[s].buffered_payloads,
                         item.sequence_number, item.payload)
       IN senders' = [senders EXCEPT
                         ![s] = Flush(@, buf, _next_sequence_to_send)]
    /\ _payload_queue' = Tail(_payload_queue)
    /\ outOfOrder' =
           (outOfOrder \/
            Head(_payload_queue).sequence_number > _next_sequence_to_send)
    /\ UNCHANGED <<task_list, queueId, _sender_task, _sequence_counter,
                   _next_sequence_to_send, workers, submitted, sent,
                   puts, synthCalls, removed, sendFails,
                   synthFailed,
                   _lock, convVars, volVars, agentVars>>

AfterSend_NoAdvance(next) == next

AfterSend_Skip(next) == next + 2

\* self._next_sequence_to_send += 1
AfterSend(next) == next + 1

\* websocket_send returned: count the position and go round the inner loop
SendReturns(s) ==
    /\ Runnable(s)
    /\ senders[s].pc = "send"
    /\ sent' = Append(sent,
           [payload |-> senders[s].next_payload,
            position |-> _next_sequence_to_send, queue |-> queueId])
    /\ _next_sequence_to_send' = AfterSend(_next_sequence_to_send)
    /\ senders' = [senders EXCEPT
                      ![s] = Flush(@, @.buffered_payloads,
                                   AfterSend(_next_sequence_to_send))]
    /\ UNCHANGED <<task_list, _payload_queue, queueId, _sender_task,
                   _sequence_counter, workers, submitted, puts,
                   synthCalls, removed, sendFails, outOfOrder,
                   synthFailed,
                   _lock, convVars, volVars, agentVars>>

AfterRaise_Rebuffer(snd, next) ==
    [snd EXCEPT !.pc = "sleep", !.next_payload = NoPayload,
                !.buffered_payloads = BufPut(@, next, snd.next_payload)]

\* the sender when websocket_send has raised: next_payload, popped before the
\* send, is stored nowhere, and the task suspends in asyncio.sleep
AfterRaise(snd, next) ==
    [snd EXCEPT !.pc = "sleep", !.next_payload = NoPayload]

\* websocket_send raised: except Exception, then asyncio.sleep(0.1)
SendRaises(s) ==
    /\ Runnable(s)
    /\ senders[s].pc = "send"
    /\ sendFails < MaxSendFail
    /\ senders' = [senders EXCEPT
                      ![s] = AfterRaise(@, _next_sequence_to_send)]
    /\ sendFails' = sendFails + 1
    /\ UNCHANGED <<task_list, _payload_queue, queueId, _sender_task,
                   _sequence_counter, _next_sequence_to_send, workers,
                   submitted, sent, puts, synthCalls, removed, outOfOrder,
                   synthFailed,
                   _lock, convVars, volVars, agentVars>>

\* the back-off sleep is over: continue, back to queue.get()
SleepReturns(s) ==
    /\ Runnable(s)
    /\ senders[s].pc = "sleep"
    /\ senders' = [senders EXCEPT ![s].pc = "get", ![s].waitQ = queueId]
    /\ UNCHANGED <<task_list, _payload_queue, queueId, _sender_task,
                   _sequence_counter, _next_sequence_to_send, workers,
                   submitted, sent, puts, synthCalls, removed, sendFails,
                   outOfOrder,
                   synthFailed,
                   _lock, convVars, volVars, agentVars>>

\* CancelledError is thrown into the task where it is suspended (or before
\* its first step): the loop breaks, or the error leaves the back-off sleep;
\* either way the task is done and its buffer is gone.
SenderCancelled(s) ==
    /\ senders[s].pc /= "done"
    /\ senders[s].cancel
    /\ senders' = [senders EXCEPT ![s].pc = "done",
                                  ![s].buffered_payloads = EmptyBuffer,
                                  ![s].next_payload = NoPayload]
    /\ UNCHANGED <<task_list, _payload_queue, queueId, _sender_task,
                   _sequence_counter, _next_sequence_to_send, workers,
                   submitted, sent, puts, synthCalls, removed, sendFails,
                   outOfOrder,
                   synthFailed,
                   _lock, convVars, volVars, agentVars>>

\* ----------------------------------------------------------- specification
Next ==
    \/ Speak
    \/ clear
    \/ \E w \in 1..Len(workers) : WorkerStart(w)
    \/ \E w \in 1..Len(workers) : SynthesisRaises(w)
    \/ \E w \in 1..Len(workers) : SynthesisReturns(w)
    \/ \E s \in 1..Len(senders) : SenderStart(s)
    \/ \E s \in 1..Len(senders) : SenderGet(s)
    \/ \E s \in 1..Len(senders) : SendReturns(s)
    \/ \E s \in 1..Len(senders) : SendRaises(s)
    \/ \E s \in 1..Len(senders) : SleepReturns(s)
    \/ \E s \in 1..Len(senders) : SenderCancelled(s)

Spec == Init /\ [][Next]_vars

\* One lifecycle in which the outbound channel accepts every send: no
\* clear(), no websocket_send that raises.
NextTurn ==
    \/ SpeakTurn
    \/ \E w \in 1..Len(workers) : WorkerStart(w)
    \/ \E w \in 1..Len(workers) : SynthesisRaises(w)
    \/ \E w \in 1..Len(workers) : SynthesisReturns(w)
    \/ \E s \in 1..Len(senders) : SenderStart(s)
    \/ \E s \in 1..Len(senders) : SenderGet(s)
    \/ \E s \in 1..Len(senders) : SendReturns(s)

SpecTurn == Init /\ [][NextTurn]_vars

\* The same lifecycle under fair scheduling: the event loop runs every task
\* that is ready, every synthesis call ends (it returns or raises) and every
\* websocket_send returns.
WorkerStep ==
    \E w \in 1..Len(workers) :
       WorkerStart(w) \/ SynthesisRaises(w) \/ SynthesisReturns(w)

SenderStep ==
    \E s \in 1..Len(senders) :
       SenderStart(s) \/ SenderGet(s) \/ SendReturns(s)

SpecTurnFair ==
    /\ SpecTurn
    /\ WF_vars(WorkerStep)
    /\ WF_vars(SenderStep)

\* speak() with each of its await expressions taken as a point where the
\* event loop may run another task: more interleaving than asyncio allows
\* (awaiting _ensure_sender_task or a put on the unbounded queue never
\* yields).  SpeakBegin is the code up to the first await: the test of the
\* text, the read of the counter and its increment.
SpeakBegin(tts_text, actions, limit) ==
    /\ Len(submitted) < limit
    /\ _sequence_counter' = NextSequence(_sequence_counter)
    /\ submitted' = Append(submitted,
           [punctuationOnly |-> OnlyPunctuation(tts_text),
            queue |-> queueId, sequence_number |-> _sequence_counter])
    /\ workers' = Append(workers,
           [pc |-> IF IsEmptyText(tts_text) THEN "callingSilent"
                   ELSE "callingSpoken",
            sequence_number |-> _sequence_counter, actions |-> actions,
            exc |-> "none", cleanup |-> NoCleanup])
    /\ puts' = Append(puts, <<>>)
    /\ UNCHANGED <<task_list, _payload_queue, queueId, _sender_task,
                   _next_sequence_to_send, senders, sent, outOfOrder,
                   synthCalls, synthFailed, removed, sendFails,
                   _lock, convVars, volVars, agentVars>>

\* the rest of the call sub: _ensure_sender_task, then the silent payload
\* or the worker task
SpeakEnd(sub) ==
    /\ workers[sub].pc \in {"callingSilent", "callingSpoken"}
    /\ senders' = EnsuredSenders
    /\ _sender_task' = EnsuredSenderTask
    /\ IF workers[sub].pc = "callingSilent"
       THEN /\ _payload_queue' = _payload_queue \o
                   SilentItems(sub, workers[sub].actions,
                               workers[sub].sequence_number)
            /\ puts' = [puts EXCEPT ![sub] =
                   SilentItems(sub, workers[sub].actions,
                               workers[sub].sequence_number)]
            /\ workers' = [workers EXCEPT ![sub].pc = "none"]
            /\ UNCHANGED task_list
       ELSE /\ workers' = [workers EXCEPT ![sub].pc = "new"]
            /\ task_list' = Append(task_list, sub)
            /\ UNCHANGED <<_payload_queue, puts>>
    /\ UNCHANGED <<queueId, _sequence_counter, _next_sequence_to_send,
                   submitted, sent, outOfOrder, synthCalls, synthFailed,
                   removed, sendFails, _lock, convVars, volVars, agentVars>>

SpeakBeginCall ==
    \E tts_text \in Texts :
       SpeakBegin(tts_text, ActionsOf(Len(submitted) + 1), MaxCallers)

\* One lifecycle as in SpecTurn where, in addition, remove_file may raise.
SynthesisReturnsCleanup(w) ==
    \E file \in AudioFiles : \E removeRaises \in BOOLEAN :
       WorkerEnds(w, file, removeRaises)

NextCleanup ==
    \/ SpeakTurn
    \/ \E w \in 1..Len(workers) : WorkerStart(w)
    \/ \E w \in 1..Len(workers) : SynthesisRaises(w)
    \/ \E w \in 1..Len(workers) : SynthesisReturnsCleanup(w)
    \/ \E s \in 1..Len(senders) : SenderStart(s)
    \/ \E s \in 1..Len(senders) : SenderGet(s)
    \/ \E s \in 1..Len(senders) : SendReturns(s)

SpecCleanup == Init /\ [][NextCleanup]_vars

\* ------------------------------------------------------- loudness analysis
\* _get_volume_by_chunks on its own: the audio is given by the RMS of its
\* windows, the call is one step.
InitVolume ==
    /\ InitManager
    /\ conv = "stream"
    /\ signals = 0
    /\ rmsIn \in RmsInputs
    /\ envelope = NotComputed
    /\ AgentIdle

GetVolumeByChunks ==
    /\ ~envelope.computed
    /\ envelope' = [raised |-> VolumeResult(rmsIn).raised,
                    volumes |-> VolumeResult(rmsIn).volumes,
                    computed |-> TRUE]
    /\ UNCHANGED <<task_list, _payload_queue, queueId, _sender_task,
                   _sequence_counter, _next_sequence_to_send, senders,
                   workers, submitted, sent, puts, outOfOrder, synthCalls,
                   synthFailed, removed, sendFails, _lock, convVars, rmsIn,
                   agentVars>>

NextVolume == GetVolumeByChunks

SpecVolume == InitVolume /\ [][NextVolume]_vars

\* The analysis inside a worker: the synthesis capability returns a file
\* that decodes to the windows rmsIn.
DecodedFile == [decodable |-> TRUE, rms |-> rmsIn]

SpeakAnalysed ==
    \E tts_text \in {TextHello, TextDots} :
       speak(tts_text, ActionsOf(Len(submitted) + 1), MaxAnalysed)

SynthesisReturnsDecoded(w) == WorkerFinish(w, DecodedFile)

NextAnalysis ==
    \/ GetVolumeByChunks
    \/ SpeakAnalysed
    \/ \E w \in 1..Len(workers) : WorkerStart(w)
    \/ \E w \in 1..Len(workers) : SynthesisReturnsDecoded(w)
    \/ \E s \in 1..Len(senders) : SenderStart(s)
    \/ \E s \in 1..Len(senders) : SenderGet(s)
    \/ \E s \in 1..Len(senders) : SendReturns(s)

SpecAnalysis == InitVolume /\ [][NextAnalysis]_vars

\* ------------------------------------------------ process_single_conversation
\* One turn of process_single_conversation with its own TTSTaskManager.
\* conv is the position of the conversation coroutine: "stream" in the loop
\* over the agent's output (where speak() is called), "gather" suspended in
\* asyncio.gather, "signal" suspended in the websocket_send of the
\* backend-synth-complete message, "finalize" at finalize_conversation_turn,
\* "raised" when an exception left the block of lines 212-219.
ConvSpeak ==
    /\ conv = "stream"
    /\ SpeakTurn

\* the agent's stream ends, or raises and the error message is sent:
\* if tts_manager.task_list
ConvStreamEnds ==
    /\ conv = "stream"
    /\ conv' = IF task_list /= <<>> THEN "gather" ELSE "finalize"
    /\ UNCHANGED <<task_list, _payload_queue, queueId, _sender_task,
                   _sequence_counter, _next_sequence_to_send, senders,
                   workers, submitted, sent, puts, outOfOrder, synthCalls,
                   synthFailed, removed, sendFails, _lock, signals, volVars,
                   agentVars>>

Gathered_NoWait(tasks, wk) == TRUE

\* asyncio.gather(*task_list) has a result: every task is done
Gathered(tasks, wk) == \A i \in 1..Len(tasks) : wk[tasks[i]].pc = "done"

\* gather raises the exception of the first task that ended with one
GatherRaises(tasks, wk) ==
    \E i \in 1..Len(tasks) :
       wk[tasks[i]].pc = "done" /\ wk[tasks[i]].exc /= "none"

\* gather returns and websocket_send is called with the signal, or gather
\* raises and the outer except Exception takes over
ConvGathered ==
    /\ conv = "gather"
    /\ Gathered(task_list, workers) \/ GatherRaises(task_list, workers)
    /\ conv' = IF GatherRaises(task_list, workers) THEN "raised"
               ELSE "signal"
    /\ signals' = IF GatherRaises(task_list, workers) THEN signals
                  ELSE signals + 1
    /\ UNCHANGED <<task_list, _payload_queue, queueId, _sender_task,
                   _sequence_counter, _next_sequence_to_send, senders,
                   workers, submitted, sent, puts, outOfOrder, synthCalls,
                   synthFailed, removed, sendFails, _lock, volVars, agentVars>>

\* the websocket_send of the signal returns
ConvSignalReturns ==
    /\ conv = "signal"
    /\ conv' = "finalize"
    /\ UNCHANGED <<task_list, _payload_queue, queueId, _sender_task,
                   _sequence_counter, _next_sequence_to_send, senders,
                   workers, submitted, sent, puts, outOfOrder, synthCalls,
                   synthFailed, removed, sendFails, _lock, signals, volVars,
                   agentVars>>

\* the websocket_send of the signal raises: the outer except Exception
ConvSignalRaises ==
    /\ conv = "signal"
    /\ conv' = "raised"
    /\ UNCHANGED <<task_list, _payload_queue, queueId, _sender_task,
                   _sequence_counter, _next_sequence_to_send, senders,
                   workers, submitted, sent, puts, outOfOrder, synthCalls,
                   synthFailed, removed, sendFails, _lock, signals, volVars,
                   agentVars>>

NextConv ==
    \/ ConvSpeak
    \/ ConvStreamEnds
    \/ ConvGathered
    \/ ConvSignalReturns
    \/ ConvSignalRaises
    \/ \E w \in 1..Len(workers) : WorkerStart(w)
    \/ \E w \in 1..Len(workers) : SynthesisRaises(w)
    \/ \E w \in 1..Len(workers) : SynthesisReturns(w)
    \/ \E s \in 1..Len(senders) : SenderStart(s)
    \/ \E s \in 1..Len(senders) : SenderGet(s)
    \/ \E s \in 1..Len(senders) : SendReturns(s)
    \/ \E s \in 1..Len(senders) : SendRaises(s)
    \/ \E s \in 1..Len(senders) : SleepReturns(s)

SpecConv == Init /\ [][NextConv]_vars

\* The turn with the other messages the conversation writes to the channel:
\* for a tool_call_status item of the agent's stream it calls websocket_send
\* itself (conv = "toolSend" while it is suspended there).
ConvToolStatus ==
    /\ conv = "stream"
    /\ conv' = "toolSend"
    /\ UNCHANGED <<task_list, _payload_queue, queueId, _sender_task,
                   _sequence_counter, _next_sequence_to_send, senders,
                   workers, submitted, sent, puts, outOfOrder, synthCalls,
                   synthFailed, removed, sendFails, _lock, signals, volVars,
                   agentVars>>

\* that send returns, the loop takes the next item of the stream; or it
\* raises, the error message is sent and the stream is over
ConvToolStatusEnds ==
    /\ conv = "toolSend"
    /\ \/ conv' = "stream"
       \/ conv' = IF task_list /= <<>> THEN "gather" ELSE "finalize"
    /\ UNCHANGED <<task_list, _payload_queue, queueId, _sender_task,
                   _sequence_counter, _next_sequence_to_send, senders,
                   workers, submitted, sent, puts, outOfOrder, synthCalls,
                   synthFailed, removed, sendFails, _lock, signals, volVars,
                   agentVars>>

NextChannel ==
    \/ ConvToolStatus
    \/ ConvToolStatusEnds
    \/ NextConv

SpecChannel == Init /\ [][NextChannel]_vars

\* The end-to-end scenario: in one turn A, B, C are submitted in this
\* order; C is punctuation only, so its payload is queued by speak() itself; the synthesis of B returns before that of A, and both after C was
\* submitted.
ScenarioTexts == <<TextHello, TextHowAreYou, TextDots>>

SpeakScenario ==
    /\ conv = "stream"
    /\ Len(submitted) < Len(ScenarioTexts)
    /\ speak(ScenarioTexts[Len(submitted) + 1],
             ActionsOf(Len(submitted) + 1), Len(ScenarioTexts))

ScenarioSynthesisReturns(w) ==
    /\ Len(submitted) = Len(ScenarioTexts)
    /\ w = 1 => workers[2].pc = "done"
    /\ SynthesisReturns(w)

\* the agent's stream ends after the three sentences
ScenarioStreamEnds ==
    /\ Len(submitted) = Len(ScenarioTexts)
    /\ ConvStreamEnds

NextScenario ==
    \/ SpeakScenario
    \/ ScenarioStreamEnds
    \/ ConvGathered
    \/ ConvSignalReturns
    \/ ConvSignalRaises
    \/ \E w \in 1..Len(workers) : WorkerStart(w)
    \/ \E w \in 1..Len(workers) : ScenarioSynthesisReturns(w)
    \/ \E s \in 1..Len(senders) : SenderStart(s)
    \/ \E s \in 1..Len(senders) : SenderGet(s)
    \/ \E s \in 1..Len(senders) : SendReturns(s)

SpecScenario == Init /\ [][NextScenario]_vars

NextCallers ==
    \/ SpeakBeginCall
    \/ \E sub \in 1..Len(workers) : SpeakEnd(sub)
    \/ clear

SpecCallers == Init /\ [][NextCallers]_vars

\* ------------------------------------------------------------ Agent factory
\* create_agent on its own. llm_configs is the object the caller passes: a
\* pool of per-provider configurations, a plain dict or an object with
\* model_dump(). A configuration is a dict that may hold "interrupt_method".
MaxAgents == 2

Providers == {"ollama_llm", "openai_llm"}

\* what agent_settings may name as llm_provider: a provider of the pool, one
\* that is not in the pool, or nothing
ProvidersAsked == Providers \cup {"claude_llm", ""}

LlmConfigs ==
    {[model |-> "m"],
     [model |-> "m", interrupt_method |-> "system"],
     [model |-> "m", interrupt_method |-> "user"]}

LlmConfigInputs ==
    {[model_dump |-> d, configs |-> c] :
        d \in BOOLEAN, c \in [Providers -> LlmConfigs]}

AgentChoices ==
    {"basic_memory_agent", "mem0_agent", "hume_ai_agent", "my.Agent"}

\* dict.pop(key, default): the value, and the dict without the key
pop(d, key, default) ==
    [value |-> IF key \in DOMAIN d THEN d[key] ELSE default,
     rest |-> [k \in DOMAIN d \ {key} |-> d[k]]]

Raised(choice, llm_provider, e) ==
    [choice |-> choice, llm_provider |-> llm_provider,
     interrupt_method |-> "none", raised |-> e]

\* the pool the branch works on: the caller's own dict, or the fresh one
\* that model_dump() builds (custom branch only)
WorksOnCallersDict(choice, cfgs) ==
    \/ choice = "basic_memory_agent"
    \/ ~cfgs.model_dump

\* the two branches that build a stateless LLM: the provider is required and
\* must be in the pool; interrupt_method is popped from its configuration
WithLlm(choice, llm_provider, cfgs) ==
    IF llm_provider = "" \/ llm_provider \notin DOMAIN cfgs.configs
    THEN [agent |-> Raised(choice, llm_provider, "ValueError"),
          llm_configs |-> cfgs]
    ELSE LET popped == pop(cfgs.configs[llm_provider],
                           "interrupt_method", "user")
         IN  [agent |-> [choice |-> choice, llm_provider |-> llm_provider,
                         interrupt_method |-> popped.value,
                         raised |-> "none"],
              llm_configs |->
                  IF WorksOnCallersDict(choice, cfgs)
                  THEN [cfgs EXCEPT !.configs[llm_provider] = popped.rest]
                  ELSE cfgs]

\* what one call returns (or raises) and what it leaves in llm_configs
CreateAgent(choice, llm_provider, cfgs) ==
    CASE choice = "mem0_agent" ->
             [agent |-> Raised(choice, llm_provider, "NotImplementedError"),
              llm_configs |-> cfgs]
      [] choice = "hume_ai_agent" ->
             [agent |-> Raised(choice, llm_provider, "none"),
              llm_configs |-> cfgs]
      [] OTHER -> WithLlm(choice, llm_provider, cfgs)

\* the basic_memory_agent branch calls llm_configs.get: its pool is a dict
create_agent ==
    \E choice \in AgentChoices, llm_provider \in ProvidersAsked :
        /\ Len(agents) < MaxAgents
        /\ choice = "basic_memory_agent" => ~llm_configs.model_dump
        /\ LET r == CreateAgent(choice, llm_provider, llm_configs)
           IN  /\ agents' = Append(agents, r.agent)
               /\ llm_configs' = r.llm_configs
        /\ UNCHANGED <<task_list, _payload_queue, queueId, _sender_task,
                       _sequence_counter, _next_sequence_to_send, senders,
                       workers, submitted, sent, puts, outOfOrder,
                       synthCalls, synthFailed, removed, sendFails, _lock,
                       convVars, volVars, chat>>

InitAgent ==
    /\ InitManager
    /\ conv = "stream"
    /\ signals = 0
    /\ rmsIn = <<>>
    /\ envelope = NotComputed
    /\ llm_configs \in LlmConfigInputs
    /\ agents = <<>>
    /\ chat = NotCalled

NextAgent == create_agent

SpecAgent == InitAgent /\ [][NextAgent]_vars

\* ------------------------------------------------------------ Ollama client
\* chat_completion on its own: an async generator and the consumer that
\* iterates it. A string is the sequence of its pieces, so that an f-string
\* is built and a prefix is read as the code does.
MaxChats == 2

\* JSON values, as response.json() returns them
JStr(pieces) == [type |-> "str", value |-> pieces]
JDict(items) == [type |-> "dict", items |-> items]
JNull == [type |-> "null"]
JInt == [type |-> "int"]
JList == [type |-> "list"]
\* a body that is not JSON: response.json() raises
NotJson == [type |-> "invalid"]

Message(content) == JDict([message |-> JDict([content |-> JStr(content)])])

\* bodies with message content
ContentBodies == {Message(<<"Hi">>), Message(<<>>)}

Bodies ==
    ContentBodies \cup
    {JDict(<<>>), JDict([error |-> JStr(<<"model not found">>)]),
     JDict([message |-> JDict(<<>>)]), JDict([message |-> JNull]),
     JDict([message |-> JStr(<<"content">>)]),
     JStr(<<"message">>), JList, JInt, JNull, NotJson}

StatusCodes == {200, 404, 500}

StatusText(code) ==
    CASE code = 200 -> "200" [] code = 404 -> "404" [] code = 500 -> "500"

\* what requests.post returns
Responses ==
    {[kind |-> "response", status_code |-> c, body |-> b] :
        c \in StatusCodes, b \in Bodies}

\* what requests.post raises
RequestExceptions == {"ConnectionError", "Timeout"}

\* except Exception (93): every exception class of this model derives from it
ChatCaught(e) ==
    e \in RequestExceptions \cup {"JSONDecodeError", "TypeError"}

\* key in v
HasKey(v, key) ==
    CASE v.type = "dict" ->
             IF key \in DOMAIN v.items THEN "true" ELSE "false"
      [] v.type = "list" -> "false"
      [] v.type = "str" ->
             IF \E i \in DOMAIN v.value : v.value[i] = key
             THEN "true" ELSE "false"
      [] OTHER -> "TypeError"

\* the test at 85-88 and the subscripts it and line 89 evaluate: a str has
\* no string subscript
MessageContent(data) ==
    LET m == HasKey(data, "message")
    IN  IF m = "TypeError" THEN "TypeError"
        ELSE IF m = "false" THEN "unexpected"
        ELSE IF data.type /= "dict" THEN "TypeError"
        ELSE LET c == HasKey(data.items.message, "content")
             IN  IF c = "TypeError" THEN "TypeError"
                 ELSE IF c = "false" THEN "unexpected"
                 ELSE IF data.items.message.type /= "dict"
                      THEN "TypeError"
                      ELSE "content"

\* the generator suspended at a yield with one more value handed over
YieldAt(c, site, value) ==
    [c EXCEPT !.pc = site, !.yielded = Append(@, value)]

\* an exception raised inside the try (68-92)
ChatException(c, e) ==
    IF ChatCaught(e)
    THEN YieldAt(c, "yield95", <<"Error:", e>>)
    ELSE [c EXCEPT !.pc = "raised"]

\* lines 84-92, up to the yield
FromJson(c) ==
    LET data == c.response.body
    IN  IF data = NotJson THEN ChatException(c, "JSONDecodeError")
        ELSE CASE MessageContent(data) = "content" ->
                      YieldAt(c, "yield89",
                              data.items.message.items.content.value)
               [] MessageContent(data) = "unexpected" ->
                      YieldAt(c, "yield92",
                              <<"Error:", "Unexpected response">>)
               [] OTHER -> ChatException(c, "TypeError")

\* lines 78-92, up to the yield
FromResponse(c) ==
    IF c.response.status_code /= 200
    THEN YieldAt(c, "yield82",
                 <<"Error:", "Ollama returned",
                   StatusText(c.response.status_code)>>)
    ELSE FromJson(c)

\* the non-200 branch without its return: it goes on to response.json()
Resumed_NoReturn(c) ==
    IF c.pc = "yield82" THEN FromJson(c) ELSE [c EXCEPT !.pc = "ended"]

\* the consumer asks for the next value: return (83), or the end of the
\* function body after the try statement
Resumed(c) == [c EXCEPT !.pc = "ended"]

ChatFrame ==
    UNCHANGED <<task_list, _payload_queue, queueId, _sender_task,
                _sequence_counter, _next_sequence_to_send, senders,
                workers, submitted, sent, puts, outOfOrder, synthCalls,
                synthFailed, removed, sendFails, _lock, convVars, volVars,
                llm_configs, agents>>

\* the call and the first __anext__: the generator runs to the await (69)
chat_completion ==
    /\ chat.pc \in {"idle", "ended"}
    /\ chat.calls < MaxChats
    /\ chat' = [pc |-> "request", response |-> NoResponse,
                yielded |-> <<>>, calls |-> chat.calls + 1]
    /\ ChatFrame

RequestReturns ==
    \E response \in Responses :
        /\ chat.pc = "request"
        /\ chat' = FromResponse([chat EXCEPT !.response = response])
        /\ ChatFrame

RequestRaises ==
    \E e \in RequestExceptions :
        /\ chat.pc = "request"
        /\ chat' = ChatException(
                       [chat EXCEPT !.response = [kind |-> e]], e)
        /\ ChatFrame

YieldSites == {"yield82", "yield89", "yield92", "yield95"}

ChatResume ==
    /\ chat.pc \in YieldSites
    /\ chat' = Resumed(chat)
    /\ ChatFrame

InitChat ==
    /\ InitManager
    /\ conv = "stream"
    /\ signals = 0
    /\ rmsIn = <<>>
    /\ envelope = NotComputed
    /\ AgentIdle

NextChat ==
    \/ chat_completion
    \/ RequestReturns
    \/ RequestRaises
    \/ ChatResume

SpecChat == InitChat /\ [][NextChat]_vars

\* ---------------------------------------------------------------- claims
\* the submission a sent entry belongs to (its display metadata)
SubOf(e) == e.payload.display_text

Subs == 1..Len(submitted)

\* every worker has ended, the queue is empty and every sender waits in get()
Quiescent ==
    /\ \A w \in 1..Len(workers) : workers[w].pc \in {"none", "done"}
    /\ _payload_queue = <<>>
    /\ \A s \in 1..Len(senders) : senders[s].pc = "get"

\* C1: in one lifecycle whose sends all succeed, whatever the order in which
\* the workers complete, the payloads sent are those of the submissions in
\* submission order, the i-th carrying the display and action metadata of the
\* i-th submission, and once everything has come to rest there is exactly
\* one payload per submission.
C1_OrderPreserved ==
    /\ Len(sent) <= Len(submitted)
    /\ \A i \in 1..Len(sent) :
          /\ sent[i].payload.display_text = i
          /\ sent[i].payload.actions = ActionsOf(i)
          /\ sent[i].position = submitted[i].sequence_number
    /\ Quiescent => Len(sent) = Len(submitted)

C1_Witness ==
    /\ Len(sent) >= 3
    /\ outOfOrder
    /\ Quiescent

\* C2: every submission puts exactly one item on the queue, tagged with its
\* sequence number: one as soon as speak() short-circuits or the worker has
\* ended (synthesis returned, synthesis raised, decoding or the envelope
\* raised), none before, never two.
C2_ExactlyOnePayload ==
    \A sub \in Subs :
       /\ Len(puts[sub]) <= 1
       /\ (workers[sub].pc \in {"none", "done"}) <=> (Len(puts[sub]) = 1)
       /\ \A i \in 1..Len(puts[sub]) :
             /\ puts[sub][i].sequence_number = submitted[sub].sequence_number
             /\ puts[sub][i].payload.display_text = sub

C2_Witness ==
    \E a, b \in Subs :
       /\ workers[a].pc = "done" /\ a \in synthFailed /\ Len(puts[a]) = 1
       /\ workers[b].pc = "done" /\ b \in removed /\ Len(puts[b]) = 1
       /\ puts[b][1].payload.audio = "null"

\* the sent entries of the lifecycle of queue q
SentIn(q) == {i \in 1..Len(sent) : sent[i].queue = q}

\* C3: within a lifecycle no position is sent twice, and
\* _next_sequence_to_send is the number of payloads sent in the lifecycle.
C3_ExactlyOnce ==
    /\ \A i, j \in 1..Len(sent) :
          (i < j /\ sent[i].queue = sent[j].queue)
             => sent[i].position /= sent[j].position
    /\ \A q \in 0..queueId :
          \A i \in SentIn(q) :
             sent[i].position = Cardinality({j \in SentIn(q) : j < i})
    /\ _next_sequence_to_send = Cardinality(SentIn(queueId))

C3_Witness ==
    /\ Len(sent) = 2
    /\ sent[1].queue /= sent[2].queue
    /\ sent[1].position = sent[2].position
    /\ _next_sequence_to_send = 1

\* C4: a payload is only ever sent in the lifecycle in which its segment was
\* submitted: no payload of a worker spawned before a clear() is sent by a
\* sender of a later lifecycle.
C4_NoStalePayloadSent ==
    \A i \in 1..Len(sent) : submitted[SubOf(sent[i])].queue = sent[i].queue

\* C5: when websocket_send raises for the payload at position k, the sender
\* goes on and _next_sequence_to_send advances past k.
C5_FailedSendAdvances ==
    [][(sendFails' > sendFails)
          => (_next_sequence_to_send' > _next_sequence_to_send)]_vars

\* C6: in one lifecycle whose sends all succeed, the payload of a segment k
\* whose synthesis raised has audio null and no volumes, it is sent after the
\* payload of segment k-1 and before that of segment k+1, and it has been
\* sent once everything has come to rest.
C6_FallbackInOrder ==
    \A k \in synthFailed :
       /\ workers[k].pc = "done"
       /\ puts[k] = << [payload |-> SilentPayload(k, ActionsOf(k)),
                        sequence_number |-> k - 1] >>
       /\ \A i \in 1..Len(sent) :
             SubOf(sent[i]) = k =>
                /\ sent[i].payload.audio = "null"
                /\ sent[i].payload.volumes = <<>>
                /\ k > 1 => \E j \in 1..(i - 1) : SubOf(sent[j]) = k - 1
                /\ \A j \in 1..(i - 1) : SubOf(sent[j]) /= k + 1
       /\ Quiescent => \E i \in 1..Len(sent) : SubOf(sent[i]) = k

C6_Witness ==
    /\ synthFailed = {2}
    /\ Len(sent) = 3
    /\ sent[1].payload.audio = "base64"
    /\ sent[2].payload.audio = "null"
    /\ sent[3].payload.audio = "base64"
    /\ outOfOrder

\* C7: for a text of nothing but whitespace and punctuation speak() calls no
\* synthesis and spawns no worker; it takes the next sequence number and
\* puts one payload with audio null and no volumes that carries the display
\* and action metadata of the call.
C7_SilentShortCircuit ==
    \A sub \in Subs :
       submitted[sub].punctuationOnly =>
          /\ workers[sub].pc = "none"
          /\ sub \notin synthCalls
          /\ \A i \in 1..Len(task_list) : task_list[i] /= sub
          /\ Len(puts[sub]) = 1
          /\ puts[sub][1].sequence_number = submitted[sub].sequence_number
          /\ puts[sub][1].payload.audio = "null"
          /\ puts[sub][1].payload.volumes = <<>>
          /\ puts[sub][1].payload.display_text = sub
          /\ puts[sub][1].payload.actions = ActionsOf(sub)
          /\ (sub < Len(submitted)
                /\ submitted[sub + 1].queue = submitted[sub].queue)
               => submitted[sub + 1].sequence_number
                     = submitted[sub].sequence_number + 1
          /\ (sub = Len(submitted) /\ submitted[sub].queue = queueId)
               => _sequence_counter = submitted[sub].sequence_number + 1

C7_Witness ==
    /\ Len(submitted) = 2
    /\ submitted[1].punctuationOnly
    /\ ~submitted[2].punctuationOnly
    /\ submitted[2].sequence_number = 1
    /\ \E i \in 1..Len(sent) : SubOf(sent[i]) = 1

\* C8: clear() requests the cancellation of the sender task, leaves an empty
\* queue and an empty task_list and both counters at 0, and the first
\* speak() after a clear() gets sequence number 0.
C8_ClearResets ==
    [][ /\ (queueId' /= queueId) =>
              /\ _payload_queue' = <<>>
              /\ task_list' = <<>>
              /\ _sequence_counter' = 0
              /\ _next_sequence_to_send' = 0
              /\ (_sender_task /= 0 /\ senders[_sender_task].pc /= "done")
                    => senders'[_sender_task].cancel
        /\ (/\ Len(submitted') = Len(submitted) + 1
            /\ queueId >= 1
            /\ \A sub \in Subs : submitted[sub].queue /= queueId)
              => submitted'[Len(submitted')].sequence_number = 0 ]_vars

C8_Witness ==
    /\ Len(submitted) = 2
    /\ submitted[1].queue = 0
    /\ submitted[2].queue >= 1
    /\ submitted[2].sequence_number = 0
    /\ _sender_task /= 0

\* C9: once speak() has been called after a clear(), a sender task is
\* running (not finished, not about to be cancelled) that consumes the
\* current queue.
C9_SenderServesQueue ==
    (queueId >= 1 /\ \E sub \in Subs : submitted[sub].queue = queueId)
       => \E s \in 1..Len(senders) : Runnable(s)

\* C10: at most one sender task is unfinished at any moment.
C10_AtMostOneSender ==
    Cardinality({s \in 1..Len(senders) : senders[s].pc /= "done"}) <= 1

C10_Witness ==
    /\ Len(senders) >= 2
    /\ senders[1].pc = "done"
    /\ senders[Len(senders)].pc /= "done"

\* C11: between two clear() calls the sequence numbers that speak() assigns
\* are 0, 1, 2, ... in call order, without gap or duplicate, also when
\* several speak() calls are under way at once; the lock is never acquired.
C11_SequenceNumbers ==
    /\ \A sub \in Subs :
          /\ submitted[sub].sequence_number =
                Cardinality({j \in 1..(sub - 1) :
                               submitted[j].queue = submitted[sub].queue})
          /\ workers[sub].sequence_number = submitted[sub].sequence_number
          /\ \A i \in 1..Len(puts[sub]) :
                puts[sub][i].sequence_number = submitted[sub].sequence_number
    /\ _lock = "unlocked"

C11_Witness ==
    /\ queueId >= 1
    /\ \E a, b \in Subs :
          /\ a < b
          /\ workers[a].pc \in {"callingSilent", "callingSpoken"}
          /\ workers[b].pc \in {"callingSilent", "callingSpoken"}
          /\ submitted[a].queue = queueId
          /\ submitted[b].queue = queueId
          /\ submitted[a].sequence_number = 0
          /\ submitted[b].sequence_number = 1

\* C12: whenever a sender is suspended in queue.get() or in websocket_send,
\* every key of its buffer is greater than _next_sequence_to_send.
C12_BufferAheadOfNext ==
    \A s \in 1..Len(senders) :
       senders[s].pc \in {"get", "send"} =>
          \A k \in DOMAIN senders[s].buffered_payloads :
             k > _next_sequence_to_send

C14_SpeakReturnsAtOnce ==
    [][ /\ Len(submitted) < MaxSpeak => ENABLED Speak
        /\ Len(submitted') = Len(submitted) + 1 =>
              LET sub == Len(submitted')
              IN /\ workers'[sub].pc \in {"new", "none"}
                 /\ sub \notin synthCalls'
                 /\ synthCalls' = synthCalls
                 /\ sent' = sent
                 /\ \A w \in 1..Len(workers) : workers'[w] = workers[w]
                 /\ \A s \in 1..Len(senders) : senders'[s] = senders[s]
      ]_vars

C14_Witness ==
    /\ Len(submitted) = 2
    /\ workers[2].pc = "new"
    /\ workers[1].pc = "synth"
    /\ \E s \in 1..Len(senders) : senders[s].pc = "get"
    /\ sent = <<>>

\* C15: in every state, whatever the sender is doing and however many
\* payloads are queued, a worker whose synthesis call is over (returned or
\* raised) can put its payload on the queue and terminate.
C15_WorkersNeverBlocked ==
    \A w \in 1..Len(workers) :
       workers[w].pc = "synth" =>
          /\ ENABLED SynthesisReturns(w)
          /\ ENABLED SynthesisRaises(w)

C15_Witness ==
    /\ \E s \in 1..Len(senders) : senders[s].pc = "send"
    /\ Len(_payload_queue) >= 1
    /\ \E w \in 1..Len(workers) : workers[w].pc = "synth"
    /\ \E w \in 1..Len(workers) : workers[w].pc = "done"

\* the payload that submission sub put is in the queue or in a sender's buffer
Held(sub) ==
    /\ puts[sub] /= <<>>
    /\ \/ \E i \in 1..Len(_payload_queue) : _payload_queue[i] = puts[sub][1]
       \/ \E s \in 1..Len(senders) :
             /\ puts[sub][1].sequence_number
                   \in DOMAIN senders[s].buffered_payloads
             /\ senders[s].buffered_payloads[puts[sub][1].sequence_number]
                   = puts[sub][1].payload

\* C16: A ("Hello."), B ("How are you?"), C ("..") submitted in this order,
\* C's silent payload queued first, then B's, then A's: what is sent is A,
\* B, C in this order, C's payload with audio = null; until A has been sent
\* the payloads of B and C are held back, both in the buffer while A is
\* being sent; at rest all three have been sent.
C16_EndToEnd ==
    /\ Len(sent) <= Len(ScenarioTexts)
    /\ \A i \in 1..Len(sent) :
          /\ SubOf(sent[i]) = i
          /\ sent[i].position = i - 1
          /\ sent[i].payload = puts[i][1].payload
          /\ i = 3 => /\ sent[i].payload.audio = "null"
                      /\ sent[i].payload.volumes = <<>>
    /\ \A sub \in Subs :
          /\ submitted[sub].punctuationOnly = (sub = 3)
          /\ submitted[sub].sequence_number = sub - 1
    /\ sent = <<>> =>
          \A sub \in {2, 3} \cap Subs : puts[sub] /= <<>> => Held(sub)
    /\ \A s \in 1..Len(senders) :
          (senders[s].pc = "send" /\ sent = <<>>) =>
             /\ senders[s].next_payload.display_text = 1
             /\ DOMAIN senders[s].buffered_payloads = {1, 2}
    /\ Quiescent /\ Len(submitted) = Len(ScenarioTexts)
          => Len(sent) = Len(ScenarioTexts)

C16_Witness ==
    /\ Len(sent) = 3
    /\ outOfOrder
    /\ sent[1].payload.audio /= "null"
    /\ sent[2].payload.audio /= "null"
    /\ sent[3].payload.audio = "null"

\* C17: a worker never ends with an exception, whatever the synthesis, the
\* decoding and the envelope computation did and whether or not sends fail;
\* so asyncio.gather never raises, and once every worker of task_list has
\* ended it returns and the turn goes on to the signal.
C17_GatherNeverRaises ==
    /\ \A w \in 1..Len(workers) : workers[w].exc = "none"
    /\ conv = "raised" => signals = 1
    /\ (conv = "gather" /\ \A i \in 1..Len(task_list) :
                              workers[task_list[i]].pc = "done")
          => ENABLED (ConvGathered /\ conv' = "signal")

C17_Witness ==
    /\ conv = "finalize"
    /\ sendFails >= 1
    /\ \E w \in synthFailed : workers[w].pc = "done"
    /\ \E w \in removed :
          /\ workers[w].pc = "done"
          /\ puts[w][1].payload.audio = "null"

\* C18: the envelope is the RMS of each window divided by the largest RMS:
\* for [10, 20, 0, 40, 20] it is [1/4, 1/2, 0, 1, 1/2]; whenever the largest
\* RMS is not 0 there is one value per window, in window order, each in
\* [0, 1], and at least one of them is 1.
C18_EnvelopeNormalised ==
    (envelope.computed /\ \E i \in 1..Len(rmsIn) : rmsIn[i] /= 0) =>
       /\ ~envelope.raised
       /\ Len(envelope.volumes) = Len(rmsIn)
       /\ \E m \in 1..Len(rmsIn) :
             /\ \A j \in 1..Len(rmsIn) : rmsIn[j] <= rmsIn[m]
             /\ envelope.volumes[m] = <<1, 1>>
             /\ \A i \in 1..Len(rmsIn) :
                   /\ envelope.volumes[i][2] > 0
                   /\ envelope.volumes[i][1] >= 0
                   /\ envelope.volumes[i][1] <= envelope.volumes[i][2]
                   /\ envelope.volumes[i][1] * rmsIn[m]
                         = rmsIn[i] * envelope.volumes[i][2]
       /\ rmsIn = ExampleRms =>
             envelope.volumes =
                <<<<1, 4>>, <<1, 2>>, <<0, 1>>, <<1, 1>>, <<1, 2>>>>

C18_Witness ==
    /\ envelope.computed
    /\ rmsIn = ExampleRms
    /\ envelope.volumes[4] = <<1, 1>>

\* every window of the audio has RMS 0
AllSilence == \A i \in 1..Len(rmsIn) : rmsIn[i] = 0

\* C19: for audio whose windows all have RMS 0, _get_volume_by_chunks raises
\* and returns no envelope; a worker whose file decodes to such audio ends
\* without exception and puts the silent fallback payload (audio = null,
\* volumes = []) under the segment's number, and that is what is sent.
C19_SilenceIsAnError ==
    AllSilence =>
       /\ envelope.computed =>
             envelope.raised /\ envelope.volumes = <<>>
       /\ \A w \in 1..Len(workers) :
             workers[w].pc = "done" =>
                /\ workers[w].exc = "none"
                /\ puts[w] =
                      << [payload |-> SilentPayload(w, workers[w].actions),
                          sequence_number |-> workers[w].sequence_number] >>
       /\ \A i \in 1..Len(sent) :
             /\ sent[i].payload.audio = "null"
             /\ sent[i].payload.volumes = <<>>

C19_Witness ==
    /\ AllSilence
    /\ Len(rmsIn) >= 2
    /\ envelope.computed
    /\ envelope.raised
    /\ Len(sent) = 1
    /\ workers[1].pc = "done"

\* C20: a worker whose synthesis call returned a file calls remove_file on
\* it, whether the payload was built or decoding or the envelope failed,
\* and only after it has put its payload; whether or not remove_file raises,
\* the worker ends without exception.  A worker whose synthesis raised has
\* no file and calls nothing.
C20_FileRemovedAfterPut ==
    \A w \in 1..Len(workers) :
       /\ workers[w].pc /= "done" => ~workers[w].cleanup.called
       /\ workers[w].pc = "done" =>
             /\ workers[w].cleanup.called = (w \notin synthFailed)
             /\ workers[w].cleanup.called = (w \in removed)
             /\ workers[w].cleanup.called =>
                   /\ workers[w].cleanup.enqueued = 1
                   /\ Len(puts[w]) = 1
             /\ workers[w].exc = "none"

C20_Witness ==
    \E a, b, c \in 1..Len(workers) :
       /\ workers[a].pc = "done" /\ workers[a].cleanup.failed
       /\ puts[a][1].payload.audio = "null"
       /\ workers[b].pc = "done" /\ workers[b].cleanup.called
       /\ puts[b][1].payload.audio /= "null"
       /\ workers[c].pc = "done" /\ c \in synthFailed

\* C21: when the sender takes from the queue an item whose sequence number
\* is already a key of its buffer, or is below _next_sequence_to_send, it
\* stops: it neither stores the item nor goes on waiting or sending.
C21_SequencingDefectIsFatal ==
    [][ \A s \in 1..Len(senders) :
          ( /\ SenderGet(s)
            /\ LET k == Head(_payload_queue).sequence_number
               IN \/ k \in DOMAIN senders[s].buffered_payloads
                  \/ k < _next_sequence_to_send )
          => senders'[s].pc \notin {"get", "send"}
      ]_vars

\* a payload is on its way: queued, buffered or handed to websocket_send
InDelivery ==
    \/ _payload_queue /= <<>>
    \/ \E s \in 1..Len(senders) :
          \/ senders[s].pc = "send"
          \/ DOMAIN senders[s].buffered_payloads /= {}

\* C22 as stated: the conversation is never inside a websocket_send of its own
\* (tool status, backend-synth-complete) while a payload is on its way.
C22_OnlyWriter ==
    conv \in {"toolSend", "signal"} => ~InDelivery

\* C22, amended: items leave the payload queue only in a get() of the
\* manager's one sender task, payloads reach the channel only through that
\* task, and no step of speak() or of a worker writes to the channel; the
\* conversation itself writes the backend-synth-complete signal, only in the
\* step in which gather returns.
C22_SenderOnlyPayloadWriter ==
    [][ /\ sent' /= sent =>
              /\ _sender_task \in 1..Len(senders)
              /\ SendReturns(_sender_task)
        /\ Len(_payload_queue') < Len(_payload_queue) =>
              /\ _sender_task \in 1..Len(senders)
              /\ SenderGet(_sender_task)
        /\ signals' /= signals => ConvGathered
        /\ (workers' /= workers \/ submitted' /= submitted) =>
              /\ sent' = sent
              /\ signals' = signals
              /\ conv' = conv
      ]_vars

C22_Witness ==
    /\ conv = "toolSend"
    /\ Len(sent) = 1
    /\ \E s \in 1..Len(senders) : senders[s].pc = "send"
    /\ _payload_queue /= <<>>

\* the number of places that hold the payload of submission sub: entries of
\* the queue, entries of the senders' buffers, sends under way, sends done
Places(sub, queue, snd, out) ==
    Cardinality({i \in 1..Len(queue) : SubOf(queue[i]) = sub})
    + Cardinality({i \in 1..Len(out) : SubOf(out[i]) = sub})
    + Cardinality({x \in 1..Len(snd) :
                     snd[x].pc = "send"
                     /\ snd[x].next_payload.display_text = sub})
    + Cardinality({x \in 1..Len(snd) :
                     \E k \in DOMAIN snd[x].buffered_payloads :
                        snd[x].buffered_payloads[k].display_text = sub})

\* C23: a payload whose websocket_send raises was taken out of the buffer
\* before the send and is afterwards neither in a buffer, nor in the queue,
\* nor sent; a payload comes into these places only by the one put of its
\* submission, so the sender never tries that payload again.
C23_FailedPayloadDropped ==
    [][ /\ \A s \in 1..Len(senders) :
              SendRaises(s) =>
                 LET sub == senders[s].next_payload.display_text
                 IN /\ sub \in Subs
                    /\ Places(sub, _payload_queue, senders, sent) = 1
                    /\ Places(sub, _payload_queue', senders', sent') = 0
        /\ \A sub \in Subs :
              /\ Len(puts'[sub]) <= 1
              /\ Places(sub, _payload_queue', senders', sent')
                    > Places(sub, _payload_queue, senders, sent)
                 => Len(puts'[sub]) > Len(puts[sub])
      ]_vars

C23_Witness ==
    /\ sendFails = 1
    /\ Quiescent
    /\ queueId = 0
    /\ Len(submitted) = 2
    /\ \E sub \in Subs :
          /\ Len(puts[sub]) = 1
          /\ Places(sub, _payload_queue, senders, sent) = 0

\* C24: every payload put on the queue, by speak() or by a worker, has type
\* "audio" and forwarded = false, and its volumes list is empty exactly when
\* its audio is null; with audio present there is one value per window of
\* the audio.
C24_PayloadShape ==
    \A sub \in Subs : \A i \in 1..Len(puts[sub]) :
       LET payload == puts[sub][i].payload
       IN /\ payload.type = "audio"
          /\ payload.forwarded = FALSE
          /\ (payload.volumes = <<>>) = (payload.audio = "null")
          /\ payload.audio /= "null" =>
                /\ ~submitted[sub].punctuationOnly
                /\ Len(payload.volumes) = Len(rmsIn)
                /\ Len(rmsIn) > 0

C24_Witness ==
    /\ Len(submitted) = 2
    /\ \E a, b \in Subs :
          /\ submitted[a].punctuationOnly
          /\ puts[a][1].payload.audio = "null"
          /\ puts[a][1].payload.volumes = <<>>
          /\ puts[b] /= <<>>
          /\ puts[b][1].payload.audio /= "null"
          /\ Len(puts[b][1].payload.volumes) = 3

\* C25: a step of a worker, whatever its outcome, leaves _sequence_counter,
\* _next_sequence_to_send, task_list, _sender_task and the senders with
\* their buffers as they are; the step that ends the worker appends one item
\* with the worker's sequence number to the payload queue, the step that
\* starts it leaves the queue alone.
C25_WorkerFrame ==
    [][ \A w \in 1..Len(workers) :
          (Len(workers') = Len(workers) /\ workers'[w] /= workers[w]) =>
             /\ _sequence_counter' = _sequence_counter
             /\ _next_sequence_to_send' = _next_sequence_to_send
             /\ task_list' = task_list
             /\ _sender_task' = _sender_task
             /\ senders' = senders
             /\ queueId' = queueId
             /\ sent' = sent
             /\ \A v \in 1..Len(workers) : v /= w => workers'[v] = workers[v]
             /\ IF workers'[w].pc = "done"
                THEN /\ Len(_payload_queue') = Len(_payload_queue) + 1
                     /\ SubSeq(_payload_queue', 1, Len(_payload_queue))
                           = _payload_queue
                     /\ _payload_queue'[Len(_payload_queue')].sequence_number
                           = workers[w].sequence_number
                ELSE _payload_queue' = _payload_queue
      ]_vars

C25_Witness ==
    /\ _sequence_counter = 3
    /\ _next_sequence_to_send = 1
    /\ \E w \in 1..Len(workers) :
          workers[w].pc = "done" /\ workers[w].cleanup.failed
    /\ \E w \in synthFailed : workers[w].pc = "done"
    /\ \E s \in 1..Len(senders) : DOMAIN senders[s].buffered_payloads /= {}

\* C26: in a lifecycle without clear() where every synthesis call ends and
\* every send returns, under fair scheduling the payload of every submitted
\* segment is eventually sent, and a sender waiting in queue.get() while the
\* payload of the next position is queued or buffered eventually sends it.
C26_EverySegmentSent ==
    /\ \A sub \in 1..MaxSegments :
          (Len(submitted) >= sub)
             ~> (\E i \in 1..Len(sent) : SubOf(sent[i]) = sub)
    /\ \A n \in 0..(MaxSegments - 1) :
          (/\ _next_sequence_to_send = n
           /\ \/ \E i \in 1..Len(_payload_queue) :
                    _payload_queue[i].sequence_number = n
              \/ \E s \in 1..Len(senders) :
                    n \in DOMAIN senders[s].buffered_payloads)
             ~> (_next_sequence_to_send > n)

C26_Witness ==
    /\ Len(submitted) = MaxSegments
    /\ Len(sent) = MaxSegments
    /\ outOfOrder
    /\ synthFailed /= {}
    /\ Quiescent

\* C27: a sender that clear() has cancelled, wherever it was suspended (not
\* yet started, in queue.get(), in websocket_send or in the back-off sleep),
\* only ends: it completes no send, takes nothing from the queue and leaves
\* _next_sequence_to_send alone; so that position changes only by clear()
\* itself or by a send of a sender that is not cancelled.
C27_CancelledSenderOnlyEnds ==
    [][ /\ \A s \in 1..Len(senders) :
              (senders[s].cancel /\ senders'[s] /= senders[s]) =>
                 /\ senders'[s].pc = "done"
                 /\ sent' = sent
                 /\ _payload_queue' = _payload_queue
                 /\ _next_sequence_to_send' = _next_sequence_to_send
        /\ _next_sequence_to_send' /= _next_sequence_to_send =>
              \/ clear
              \/ \E s \in 1..Len(senders) :
                    ~senders[s].cancel /\ SendReturns(s)
        /\ sent' /= sent =>
              \E s \in 1..Len(senders) : ~senders[s].cancel
      ]_vars

C27_Witness ==
    /\ queueId = 1
    /\ _next_sequence_to_send = 0
    /\ _payload_queue /= <<>>
    /\ sent /= <<>>
    /\ \E s \in 1..Len(senders) :
          /\ senders[s].pc = "done"
          /\ senders[s].cancel
    /\ \E s \in 1..Len(senders) :
          /\ senders[s].pc = "get"
          /\ ~senders[s].cancel

\* the sender s hands a payload to websocket_send in this step
BeginsSend(s) ==
    /\ senders'[s].pc = "send"
    /\ senders[s].pc /= "send" \/ sent' /= sent

\* C28: whenever a sender hands a payload to websocket_send, it is the one
\* its buffer (with the item just received) held under the key
\* _next_sequence_to_send, and that key has left the buffer; except in
\* clear(), _next_sequence_to_send never decreases and grows only by 1, in
\* the step in which a websocket_send returns.
C28_SendsNextAndCounts ==
    [][ /\ \A s \in 1..Len(senders) :
              BeginsSend(s) =>
                 LET n == _next_sequence_to_send'
                     buf == senders[s].buffered_payloads
                 IN /\ n \notin DOMAIN senders'[s].buffered_payloads
                    /\ \/ /\ senders[s].pc = "get"
                          /\ _payload_queue /= <<>>
                          /\ Head(_payload_queue).sequence_number = n
                          /\ senders'[s].next_payload
                                = Head(_payload_queue).payload
                       \/ /\ senders[s].pc = "send"
                          /\ n \in DOMAIN buf
                          /\ senders'[s].next_payload = buf[n]
        /\ clear \/ _next_sequence_to_send' >= _next_sequence_to_send
        /\ (~clear /\ _next_sequence_to_send' /= _next_sequence_to_send) =>
              /\ _next_sequence_to_send' = _next_sequence_to_send + 1
              /\ Len(sent') = Len(sent) + 1
              /\ \E s \in 1..Len(senders) : SendReturns(s)
        /\ (\E s \in 1..Len(senders) : SendRaises(s)) =>
              _next_sequence_to_send' = _next_sequence_to_send
      ]_vars

C28_Witness ==
    /\ outOfOrder
    /\ _next_sequence_to_send = 1
    /\ Len(sent) = 1
    /\ queueId = 0
    /\ \E s \in 1..Len(senders) :
          /\ senders[s].pc = "send"
          /\ senders[s].next_payload.display_text = 2

\* C29: create_agent leaves the caller's llm_configs as it was, so two calls
\* with the same llm_configs object, the same agent choice and the same
\* provider resolve the same interrupt_method.
C29_ConfigsUnchanged ==
    [][/\ llm_configs' = llm_configs
       /\ \A i, j \in DOMAIN agents' :
            /\ agents'[i].choice = agents'[j].choice
            /\ agents'[i].llm_provider = agents'[j].llm_provider
            /\ agents'[i].raised = "none"
            /\ agents'[j].raised = "none"
            => agents'[i].interrupt_method = agents'[j].interrupt_method
      ]_vars

\* the configured "system" was resolved by the first call and is "user" in
\* the second
C29_Lost ==
    /\ Len(agents) = 2
    /\ agents[1].choice = "basic_memory_agent"
    /\ agents[2].choice = "basic_memory_agent"
    /\ agents[1].llm_provider = agents[2].llm_provider
    /\ agents[1].interrupt_method = "system"
    /\ agents[2].interrupt_method = "user"

\* the request came back 200 with message content
ChatSucceeded(c) ==
    /\ c.response.kind = "response"
    /\ c.response.status_code = 200
    /\ c.response.body \in ContentBodies

\* C30: in every outcome chat_completion yields exactly one string and then
\* ends, and raises nothing to its consumer: the message content when the
\* response is 200 with message content, a string starting with "Error:"
\* otherwise.
C30_OneStringThenEnds ==
    /\ chat.pc /= "raised"
    /\ chat.pc \in {"idle", "request"} => chat.yielded = <<>>
    /\ chat.pc \in YieldSites \cup {"ended"} =>
          /\ Len(chat.yielded) = 1
          /\ IF ChatSucceeded(chat)
             THEN chat.yielded[1] =
                      chat.response.body.items.message.items.content.value
             ELSE /\ Len(chat.yielded[1]) > 0
                  /\ chat.yielded[1][1] = "Error:"
    /\ chat.pc \in YieldSites => ENABLED ChatResume

\* a non-200 answer whose body would decode to message content: the
\* generator has ended after the one error string
C30_Witness ==
    /\ chat.pc = "ended"
    /\ chat.response.kind = "response"
    /\ chat.response.status_code = 404
    /\ chat.response.body = Message(<<"Hi">>)
    /\ chat.yielded = <<(<<"Error:", "Ollama returned", "404">>)>>

====
